---------------------------- MODULE Spec2Model ----------------------------
(***************************************************************************)
(* A model of the Redis-compatible server of app/main.py and app/resp.py:  *)
(* the RESP codec on byte streams, the command executor and its keyspace,  *)
(* the per-connection handler task with replica registration and write     *)
(* fan-out, and the replica-side handshake run by main() before serving.   *)
(*                                                                         *)
(* Bytes are one-character strings ("x.." for a byte that is not printable *)
(* ASCII); a bytes object and a str are sequences of them.  Tasks run on   *)
(* one cooperative event loop: an action is what a task does between two   *)
(* awaits that can suspend it (a read that finds no data, a drain).        *)
(***************************************************************************)
EXTENDS Integers, Sequences, FiniteSets, TLC

VARIABLES
    mainPc,               \* position of main(): start, handshake, serving, raised
    role,                 \* config.config['replication']['role']
    store,                \* resp.store: key -> [value, px]
    replica_connections,  \* main.replica_connections: list of (reader, writer)
    clock,                \* time.time() * 1000
    hpc,                  \* per connection: position of its handler task
    ps,                   \* per connection: frame of the parse_commands call in progress
    commands,             \* per connection: handler's local `commands`
    results,              \* per connection: frames of `result` still to write
    writer,               \* per connection: handler's local `writer` (a socket id)
    fanIdx,               \* per connection: index of the fan-out loop in the registry
    exc,                  \* per connection: the exception that ended the task, and its line
    inbuf,                \* per socket: bytes received and not yet read
    eof,                  \* per socket: the peer has closed its sending side
    connLost,             \* per socket: the transport has lost the connection
    out,                  \* per socket: writes made on it, in order
    xlog,                 \* executed commands, in execution order
    peer,                 \* per socket: what the peer is doing
    sent,                 \* number of frames clients have sent
    hs                    \* frame of send_handshake: step, response parse, requests written

vars == << mainPc, role, store, replica_connections, clock, hpc, ps, commands,
           results, writer, fanIdx, exc, inbuf, eof, connLost, out, xlog, peer, sent, hs >>

-----------------------------------------------------------------------------
(* Bounds of the model. *)

MaxConns == 3
MaxSends == 2
MaxCloses == 1
MaxClock == 3
MaxPropagated == 1
MaxTtlSends == 3
MaxLen == 2

-----------------------------------------------------------------------------
(* resp.DataType, resp.Constant, resp.Command *)

ARRAY == <<"*">>
BULK_STRING == <<"$">>
SIMPLE_STRING == <<"+">>
SIMPLE_ERROR == <<"-">>

NULL_BULK_STRING == <<"$", "-", "1", "\r", "\n">>
TERMINATOR == <<"\r", "\n">>
EMPTY_BYTE == << >>
SPACE_BYTE == <<" ">>
PONG == <<"P", "O", "N", "G">>
OK == <<"O", "K">>
INVALID_COMMAND == <<"I", "n", "v", "a", "l", "i", "d", " ", "C", "o", "m", "m", "a", "n", "d">>
FULLRESYNC == <<"F", "U", "L", "L", "R", "E", "S", "Y", "N", "C">>

PING == <<"p", "i", "n", "g">>
ECHO == <<"e", "c", "h", "o">>
SET == <<"s", "e", "t">>
GET == <<"g", "e", "t">>
INFO == <<"i", "n", "f", "o">>
REPLCONF == <<"r", "e", "p", "l", "c", "o", "n", "f">>
PSYNC == <<"p", "s", "y", "n", "c">>

rdb_state == <<
    "R", "E", "D", "I", "S", "0", "0", "1", "1", "xfa", "x09", "r", "e", "d", "i", "s",
    "-", "v", "e", "r", "x05", "7", ".", "2", ".", "0", "xfa", "\n", "r", "e", "d", "i",
    "s", "-", "b", "i", "t", "s", "xc0", "@", "xfa", "x05", "c", "t", "i", "m", "e", "xc2",
    "m", "x08", "xbc", "e", "xfa", "x08", "u", "s", "e", "d", "-", "m", "e", "m", "xc2", "xb0",
    "xc4", "x10", "x00", "xfa", "x08", "a", "o", "f", "-", "b", "a", "s", "e", "xc0", "x00", "xff",
    "xf0", "n", ";", "xfe", "xc0", "xff", "Z", "xa2" >>

write_commands == {SET}

(* The configuration module app/config.py: its replication section. *)
master_replid == <<
    "8", "3", "7", "1", "b", "4", "f", "b", "1", "1", "5", "5", "b", "7", "1", "f",
    "4", "a", "0", "4", "d", "3", "e", "1", "b", "c", "3", "e", "1", "8", "c", "4",
    "a", "9", "9", "0", "a", "e", "e", "b" >>
master_repl_offset == 0

-----------------------------------------------------------------------------
(* Python's bytes and str operations used by the code. *)

Min(a, b) == IF a < b THEN a ELSE b

RECURSIVE Join(_)
Join(parts) ==   \* b''.join(parts)
    IF parts = << >> THEN << >> ELSE Head(parts) \o Join(Tail(parts))

RECURSIVE JoinWith(_, _)
JoinWith(sep, parts) ==   \* sep.join(parts)
    IF parts = << >> THEN << >>
    ELSE IF Len(parts) = 1 THEN parts[1]
    ELSE parts[1] \o sep \o JoinWith(sep, Tail(parts))

Digits == <<"0", "1", "2", "3", "4", "5", "6", "7", "8", "9">>
IsDigit(ch) == \E i \in 1..10 : Digits[i] = ch
DigitVal(ch) == (CHOOSE i \in 1..10 : Digits[i] = ch) - 1

RECURSIVE StrNat(_)
StrNat(n) == IF n < 10 THEN <<Digits[n + 1]>> ELSE StrNat(n \div 10) \o <<Digits[(n % 10) + 1]>>

Str(n) ==   \* str(n) for an int
    IF n < 0 THEN <<"-">> \o StrNat(0 - n) ELSE StrNat(n)

Whitespace == {" ", "\t", "\n", "\r", "x0b", "x0c"}

RECURSIVE LStrip(_)
LStrip(s) == IF s # << >> /\ Head(s) \in Whitespace THEN LStrip(Tail(s)) ELSE s

RECURSIVE RStrip(_)
RStrip(s) ==
    IF s # << >> /\ s[Len(s)] \in Whitespace THEN RStrip(SubSeq(s, 1, Len(s) - 1)) ELSE s

RECURSIVE NatVal(_)
NatVal(s) == IF s = << >> THEN 0 ELSE 10 * NatVal(SubSeq(s, 1, Len(s) - 1)) + DigitVal(s[Len(s)])

PyInt(s) ==   \* int(s): [ok, val]; ok = FALSE is ValueError
    LET t == RStrip(LStrip(s))
        signed == t # << >> /\ Head(t) \in {"+", "-"}
        d == IF signed THEN Tail(t) ELSE t
    IN  IF d = << >> \/ \E i \in 1..Len(d) : ~IsDigit(d[i])
        THEN [ok |-> FALSE, val |-> 0]
        ELSE [ok |-> TRUE,
              val |-> IF signed /\ Head(t) = "-" THEN 0 - NatVal(d) ELSE NatVal(d)]

Upper == <<"A", "B", "C", "D", "E", "F", "G", "H", "I", "J", "K", "L", "M",
           "N", "O", "P", "Q", "R", "S", "T", "U", "V", "W", "X", "Y", "Z">>
LowerLetters == <<"a", "b", "c", "d", "e", "f", "g", "h", "i", "j", "k", "l", "m",
           "n", "o", "p", "q", "r", "s", "t", "u", "v", "w", "x", "y", "z">>

LowerChar(ch) ==
    IF \E i \in 1..26 : Upper[i] = ch
    THEN LowerLetters[CHOOSE i \in 1..26 : Upper[i] = ch] ELSE ch

Lower(s) == [i \in 1..Len(s) |-> LowerChar(s[i])]   \* str.lower()

HighBytes == {"xa2", "xb0", "xbc", "xc0", "xc2", "xc4", "xf0", "xfa", "xfe", "xff"}

DecodeOk(data) ==   \* bytes.decode() raises on a byte that is not UTF-8
    \A i \in 1..Len(data) : data[i] \notin HighBytes

-----------------------------------------------------------------------------
(* resp.encode *)

encode(datatype, data) ==
    IF datatype \in {SIMPLE_STRING, SIMPLE_ERROR}
    THEN JoinWith(TERMINATOR, <<datatype \o data, EMPTY_BYTE>>)
    ELSE IF datatype = BULK_STRING
    THEN JoinWith(TERMINATOR, <<datatype \o Str(Len(data)), data, EMPTY_BYTE>>)
    ELSE JoinWith(TERMINATOR, <<datatype \o Str(Len(data)), Join(data)>>)

EncodeCommand(cmds) ==   \* an Array of one Bulk String per element
    encode(ARRAY, [i \in 1..Len(cmds) |-> encode(BULK_STRING, cmds[i])])

-----------------------------------------------------------------------------
(* asyncio.StreamReader on a buffer: [st, data, buf], st = "block" when the  *)
(* call has to wait for more bytes, "raise" for IncompleteReadError.         *)

ReadN(buf, atEof, n) ==
    IF n = 0 THEN [st |-> "ok", data |-> << >>, buf |-> buf]
    ELSE IF n < 0
    THEN IF atEof THEN [st |-> "ok", data |-> buf, buf |-> << >>]
         ELSE [st |-> "block", data |-> << >>, buf |-> buf]
    ELSE IF buf = << >>
    THEN IF atEof THEN [st |-> "ok", data |-> << >>, buf |-> buf]
         ELSE [st |-> "block", data |-> << >>, buf |-> buf]
    ELSE [st |-> "ok", data |-> SubSeq(buf, 1, Min(n, Len(buf))),
          buf |-> SubSeq(buf, Min(n, Len(buf)) + 1, Len(buf))]

SepAt(buf) == {i \in 1..(Len(buf) - 1) : buf[i] = "\r" /\ buf[i + 1] = "\n"}

ReadUntil(buf, atEof) ==
    IF SepAt(buf) # {}
    THEN LET i == CHOOSE j \in SepAt(buf) : \A k \in SepAt(buf) : j <= k
         IN  [st |-> "ok", data |-> SubSeq(buf, 1, i + 1),
              buf |-> SubSeq(buf, i + 2, Len(buf))]
    ELSE IF atEof THEN [st |-> "raise", data |-> buf, buf |-> << >>]
    ELSE [st |-> "block", data |-> << >>, buf |-> buf]

-----------------------------------------------------------------------------
(* resp.parse_commands: the frame of a call is [pos, num, cmds, length,     *)
(* data, ret, why]; pos names the read the call is at, or "done" with ret   *)
(* the list returned and why the error it logged ("" when none).            *)

NewParse == [pos |-> "sigil", num |-> 0, cmds |-> << >>, length |-> 0,
             data |-> << >>, ret |-> << >>, why |-> ""]

Failed(p, why) == [p EXCEPT !.pos = "done", !.ret = << >>, !.why = why]

LoopTestStopsEarly(p) ==   \* LoopTest leaving the loop one element early
    IF Len(p.cmds) + 1 < p.num THEN [p EXCEPT !.pos = "dtype"]
    ELSE [p EXCEPT !.pos = "done", !.ret = p.cmds]

LoopTest(p) ==   \* while len(commands) < num_commands
    IF Len(p.cmds) < p.num THEN [p EXCEPT !.pos = "dtype"]
    ELSE [p EXCEPT !.pos = "done", !.ret = p.cmds]

ParseStep(p, buf, atEof) ==   \* runs the read at p.pos: [p, buf, blocked]
    LET blocked == [p |-> p, buf |-> buf, blocked |-> TRUE]
        go(q, b) == [p |-> q, buf |-> b, blocked |-> FALSE]
    IN  CASE p.pos = "sigil" ->
               LET r == ReadN(buf, atEof, 1)
               IN  IF r.st = "block" THEN blocked
                   ELSE IF r.data # ARRAY
                   THEN go(Failed(p, IF r.data = << >> THEN "eof" ELSE "sigil"), r.buf)
                   ELSE go([p EXCEPT !.pos = "count"], r.buf)
          [] p.pos = "count" ->
               LET r == ReadUntil(buf, atEof)
               IN  IF r.st = "block" THEN blocked
                   ELSE IF r.st = "raise" \/ ~PyInt(r.data).ok
                   THEN go(Failed(p, "exception"), r.buf)
                   ELSE go(LoopTest([p EXCEPT !.num = PyInt(r.data).val]), r.buf)
          [] p.pos = "dtype" ->
               LET r == ReadN(buf, atEof, 1)
               IN  IF r.st = "block" THEN blocked
                   ELSE IF r.data # BULK_STRING THEN go(Failed(p, "datatype"), r.buf)
                   ELSE go([p EXCEPT !.pos = "len"], r.buf)
          [] p.pos = "len" ->
               LET r == ReadUntil(buf, atEof)
               IN  IF r.st = "block" THEN blocked
                   ELSE IF r.st = "raise" \/ ~PyInt(r.data).ok
                   THEN go(Failed(p, "exception"), r.buf)
                   ELSE go([p EXCEPT !.pos = "data", !.length = PyInt(r.data).val], r.buf)
          [] p.pos = "data" ->
               LET r == ReadN(buf, atEof, p.length)
               IN  IF r.st = "block" THEN blocked
                   ELSE go([p EXCEPT !.pos = "term", !.data = r.data], r.buf)
          [] p.pos = "term" ->
               LET r == ReadN(buf, atEof, 2)
               IN  IF r.st = "block" THEN blocked
                   ELSE IF r.data # TERMINATOR THEN go(Failed(p, "terminator"), r.buf)
                   ELSE IF ~DecodeOk(p.data) THEN go(Failed(p, "exception"), r.buf)
                   ELSE go(LoopTest([p EXCEPT !.cmds = Append(p.cmds, p.data)]), r.buf)
          [] OTHER -> blocked

RECURSIVE parse_commands(_, _, _)
parse_commands(p, buf, atEof) ==   \* runs the call until it returns or has to wait
    IF p.pos = "done" THEN [p |-> p, buf |-> buf]
    ELSE LET s == ParseStep(p, buf, atEof)
         IN  IF s.blocked THEN [p |-> p, buf |-> buf]
             ELSE parse_commands(s.p, s.buf, atEof)

-----------------------------------------------------------------------------
(* resp.parse_response: the frame of a call is [pos, inArray, n, elements,  *)
(* bound, element, length, data, ret, exc]; pos = "done" with exc = TRUE is *)
(* an exception leaving the call.                                           *)

NewResponse == [pos |-> "datatype", inArray |-> FALSE, n |-> 0, elements |-> << >>,
                bound |-> FALSE, element |-> << >>, length |-> 0, data |-> << >>,
                ret |-> << >>, exc |-> FALSE]

Raised(p) == [p EXCEPT !.pos = "done", !.exc = TRUE]

ArrayLoop(p) ==   \* while num_elements > 0
    IF p.n > 0 THEN [p EXCEPT !.pos = "el_datatype"]
    ELSE [p EXCEPT !.pos = "done", !.ret = p.elements]

Element(p, value) ==   \* a parse_* helper returns value
    IF p.inArray
    THEN ArrayLoop([p EXCEPT !.bound = TRUE, !.element = value,
                             !.elements = Append(p.elements, value), !.n = p.n - 1])
    ELSE [p EXCEPT !.pos = "done", !.ret = value]

StripTerminator(s) ==   \* data.strip(b'\r\n')
    LET ls == CHOOSE i \in 1..(Len(s) + 1) :
                  /\ \A j \in 1..(i - 1) : s[j] \in {"\r", "\n"}
                  /\ i <= Len(s) => s[i] \notin {"\r", "\n"}
        rs == CHOOSE i \in 0..Len(s) :
                  /\ \A j \in (i + 1)..Len(s) : s[j] \in {"\r", "\n"}
                  /\ i >= 1 => s[i] \notin {"\r", "\n"}
    IN  SubSeq(s, ls, rs)

ResponseStep(p, buf, atEof) ==   \* runs the read at p.pos: [p, buf, blocked]
    LET blocked == [p |-> p, buf |-> buf, blocked |-> TRUE]
        go(q, b) == [p |-> q, buf |-> b, blocked |-> FALSE]
    IN  CASE p.pos = "datatype" ->
               LET r == ReadN(buf, atEof, 1)
               IN  IF r.st = "block" THEN blocked
                   ELSE IF r.data = ARRAY THEN go([p EXCEPT !.pos = "count"], r.buf)
                   ELSE IF r.data = BULK_STRING THEN go([p EXCEPT !.pos = "len"], r.buf)
                   ELSE IF r.data \in {SIMPLE_STRING, SIMPLE_ERROR}
                   THEN go([p EXCEPT !.pos = "line"], r.buf)
                   ELSE go([p EXCEPT !.pos = "done"], r.buf)
          [] p.pos = "count" ->
               LET r == ReadUntil(buf, atEof)
               IN  IF r.st = "block" THEN blocked
                   ELSE IF r.st = "raise" \/ ~PyInt(r.data).ok THEN go(Raised(p), r.buf)
                   ELSE go(ArrayLoop([p EXCEPT !.inArray = TRUE,
                                               !.n = PyInt(r.data).val]), r.buf)
          [] p.pos = "el_datatype" ->
               LET r == ReadN(buf, atEof, 1)
               IN  IF r.st = "block" THEN blocked
                   ELSE IF r.data = BULK_STRING THEN go([p EXCEPT !.pos = "len"], r.buf)
                   ELSE IF r.data \in {SIMPLE_STRING, SIMPLE_ERROR}
                   THEN go([p EXCEPT !.pos = "line"], r.buf)
                   ELSE IF ~p.bound THEN go(Raised(p), r.buf)
                   ELSE go(Element(p, p.element), r.buf)
          [] p.pos = "len" ->
               LET r == ReadUntil(buf, atEof)
               IN  IF r.st = "block" THEN blocked
                   ELSE IF r.st = "raise" \/ ~PyInt(r.data).ok THEN go(Raised(p), r.buf)
                   ELSE go([p EXCEPT !.pos = "data", !.length = PyInt(r.data).val], r.buf)
          [] p.pos = "data" ->
               LET r == ReadN(buf, atEof, p.length)
               IN  IF r.st = "block" THEN blocked
                   ELSE go([p EXCEPT !.pos = "term", !.data = r.data], r.buf)
          [] p.pos = "term" ->
               LET r == ReadN(buf, atEof, 2)
               IN  IF r.st = "block" THEN blocked
                   ELSE IF r.data # TERMINATOR THEN go(Element(p, EMPTY_BYTE), r.buf)
                   ELSE go(Element(p, p.data), r.buf)
          [] p.pos = "line" ->
               LET r == ReadUntil(buf, atEof)
               IN  IF r.st = "block" THEN blocked
                   ELSE IF r.st = "raise" THEN go(Raised(p), r.buf)
                   ELSE go(Element(p, StripTerminator(r.data)), r.buf)
          [] OTHER -> blocked

RECURSIVE parse_response(_, _, _)
parse_response(p, buf, atEof) ==   \* runs the call until it returns or has to wait
    IF p.pos = "done" THEN [p |-> p, buf |-> buf]
    ELSE LET s == ResponseStep(p, buf, atEof)
         IN  IF s.blocked THEN [p |-> p, buf |-> buf]
             ELSE parse_response(s.p, s.buf, atEof)

-----------------------------------------------------------------------------
(* resp.store and resp.execute_commands.  An entry is [value, hasPx, px]:   *)
(* hasPx = FALSE is 'px': None.  execute_commands gives [kind, frames,      *)
(* store]: kind "bytes" (one frame), "list", "none" (the function falls off *)
(* its end and returns None) or the exception raised (IndexError,           *)
(* ValueError, KeyError), and the keyspace as the call leaves it.           *)

Put(st, key, entry) ==   \* store[key] = entry
    [k \in DOMAIN st \cup {key} |-> IF k = key THEN entry ELSE st[k]]

Pop(st, key) ==   \* store.pop(key)
    [k \in DOMAIN st \ {key} |-> st[k]]

LiveThroughExpiry(entry, now) ==   \* Live with <= for <
    (~entry.hasPx \/ entry.px = 0) \/ now <= entry.px

Live(entry, now) ==   \* not store[key]['px'] or timestamp_ms < store[key]['px']
    (~entry.hasPx \/ entry.px = 0) \/ now < entry.px

ConfigSections(rl) ==   \* config.config
    [name \in {<<"r", "e", "p", "l", "i", "c", "a", "t", "i", "o", "n">>} |->
        << <<<<"r", "o", "l", "e">>, rl>>,
           <<<<"m", "a", "s", "t", "e", "r", "_", "r", "e", "p", "l", "i", "d">>, master_replid>>,
           <<<<
    "m", "a", "s", "t", "e", "r", "_", "r", "e", "p", "l", "_", "o", "f", "f", "s",
    "e", "t" >>, Str(master_repl_offset)>> >>]

Bytes(frame, st) == [kind |-> "bytes", frames |-> <<frame>>, store |-> st]
Raise(st, e) == [kind |-> e, frames |-> << >>, store |-> st]

ExecSetKeepsExpiry(cmds, st, now) ==   \* ExecSet leaving the expiry of an entry it replaces
    IF Len(cmds) < 3 THEN Raise(st, "IndexError")
    ELSE LET old == IF cmds[2] \in DOMAIN st THEN st[cmds[2]]
                    ELSE [value |-> cmds[3], hasPx |-> FALSE, px |-> 0]
             st1 == Put(st, cmds[2], [old EXCEPT !.value = cmds[3]])
         IN  IF Len(cmds) = 5
             THEN IF ~PyInt(cmds[5]).ok THEN Raise(st1, "ValueError")
                  ELSE Bytes(encode(SIMPLE_STRING, OK),
                             Put(st, cmds[2], [value |-> cmds[3], hasPx |-> TRUE,
                                               px |-> now + PyInt(cmds[5]).val]))
             ELSE Bytes(encode(SIMPLE_STRING, OK), st1)

ExecSet(cmds, st, now) ==
    IF Len(cmds) < 3 THEN Raise(st, "IndexError")
    ELSE LET st1 == Put(st, cmds[2], [value |-> cmds[3], hasPx |-> FALSE, px |-> 0])
         IN  IF Len(cmds) = 5
             THEN IF ~PyInt(cmds[5]).ok THEN Raise(st1, "ValueError")
                  ELSE Bytes(encode(SIMPLE_STRING, OK),
                             Put(st, cmds[2], [value |-> cmds[3], hasPx |-> TRUE,
                                               px |-> now + PyInt(cmds[5]).val]))
             ELSE Bytes(encode(SIMPLE_STRING, OK), st1)

ExecGet(cmds, st, now) ==
    IF Len(cmds) < 2 THEN Raise(st, "IndexError")
    ELSE IF cmds[2] \in DOMAIN st
    THEN IF Live(st[cmds[2]], now)
         THEN Bytes(encode(BULK_STRING, st[cmds[2]].value), st)
         ELSE Bytes(NULL_BULK_STRING, Pop(st, cmds[2]))
    ELSE Bytes(NULL_BULK_STRING, st)

ExecInfo(cmds, st, rl) ==
    IF Len(cmds) < 2 THEN Raise(st, "IndexError")
    ELSE IF cmds[2] \notin DOMAIN ConfigSections(rl) THEN Raise(st, "KeyError")
    ELSE LET items == ConfigSections(rl)[cmds[2]]
         IN  Bytes(encode(BULK_STRING,
                          JoinWith(<<"\n">>, [i \in 1..Len(items) |->
                                                items[i][1] \o <<":">> \o items[i][2]])),
                   st)

ExecPsyncTerminated(st) ==   \* ExecPsync ending the snapshot frame with CRLF
    [kind |-> "list",
     frames |-> << encode(SIMPLE_STRING,
                          JoinWith(SPACE_BYTE, <<FULLRESYNC, master_replid,
                                                 Str(master_repl_offset)>>)),
                   Join(<<BULK_STRING, Str(Len(rdb_state)), TERMINATOR, rdb_state,
                          TERMINATOR>>) >>,
     store |-> st]

ExecPsync(st) ==
    [kind |-> "list",
     frames |-> << encode(SIMPLE_STRING,
                          JoinWith(SPACE_BYTE, <<FULLRESYNC, master_replid,
                                                 Str(master_repl_offset)>>)),
                   Join(<<BULK_STRING, Str(Len(rdb_state)), TERMINATOR, rdb_state>>) >>,
     store |-> st]

execute_commands(cmds, st, now, rl) ==
    IF cmds = << >> THEN Bytes(encode(SIMPLE_ERROR, INVALID_COMMAND), st)
    ELSE IF Lower(cmds[1]) = PING THEN Bytes(encode(SIMPLE_STRING, PONG), st)
    ELSE IF Lower(cmds[1]) = ECHO
    THEN IF Len(cmds) < 2 THEN Raise(st, "IndexError")
         ELSE Bytes(encode(SIMPLE_STRING, cmds[2]), st)
    ELSE IF Lower(cmds[1]) = SET THEN ExecSet(cmds, st, now)
    ELSE IF Lower(cmds[1]) = GET THEN ExecGet(cmds, st, now)
    ELSE IF Lower(cmds[1]) = INFO THEN ExecInfo(cmds, st, rl)
    ELSE IF Lower(cmds[1]) = REPLCONF THEN Bytes(encode(SIMPLE_STRING, OK), st)
    ELSE IF Lower(cmds[1]) = PSYNC THEN ExecPsync(st)
    ELSE [kind |-> "none", frames |-> << >>, store |-> st]

-----------------------------------------------------------------------------
(* State of the node. *)

Conns == 1..MaxConns      \* accepted connections, in the order they are accepted
Upstream == 0             \* the socket send_handshake opens to the primary
Socks == {Upstream} \cup Conns

MASTER == <<"m", "a", "s", "t", "e", "r">>
SLAVE == <<"s", "l", "a", "v", "e">>
LISTENING_PORT == <<"l", "i", "s", "t", "e", "n", "i", "n", "g", "-", "p", "o", "r", "t">>

HandshakeRequests ==   \* the four requests of send_handshake
    << <<PING>>,
       <<REPLCONF, LISTENING_PORT, <<"6", "3", "8", "0">>>>,
       <<REPLCONF, <<"c", "a", "p", "a">>, <<"p", "s", "y", "n", "c", "2">>>>,
       <<PSYNC, <<"?">>, <<"-", "1">>>> >>

WriteFirst(o, s, data, by, kind) ==   \* Write putting the data before what was written
    IF connLost[s] THEN o
    ELSE [o EXCEPT ![s] = <<[data |-> data, by |-> by, kind |-> kind]>> \o @]

Write(o, s, data, by, kind) ==   \* writer.write(data) on socket s
    IF connLost[s] THEN o
    ELSE [o EXCEPT ![s] = Append(@, [data |-> data, by |-> by, kind |-> kind])]

NoException == [name |-> "", line |-> 0]

NoPeer == [kind |-> "none", step |-> 0, pending |-> << >>, propagated |-> << >>]

Init0(replicaof) ==
    /\ mainPc = "start"
    /\ role = MASTER
    /\ store = << >>
    /\ replica_connections = << >>
    /\ clock = 1
    /\ hpc = [c \in Conns |-> "none"]
    /\ ps = [c \in Conns |-> NewParse]
    /\ commands = [c \in Conns |-> << >>]
    /\ results = [c \in Conns |-> << >>]
    /\ writer = [c \in Conns |-> c]
    /\ fanIdx = [c \in Conns |-> 0]
    /\ exc = [c \in Conns |-> NoException]
    /\ inbuf = [s \in Socks |-> << >>]
    /\ eof = [s \in Socks |-> FALSE]
    /\ connLost = [s \in Socks |-> FALSE]
    /\ out = [s \in Socks |-> << >>]
    /\ xlog = << >>
    /\ peer = [s \in Socks |-> NoPeer]
    /\ sent = 0
    /\ hs = [replicaof |-> replicaof, step |-> 0, at |-> "", p |-> NewResponse]

nodeVars == << mainPc, role, hs >>
taskVars == << hpc, ps, commands, results, writer, fanIdx, exc >>
sharedVars == << store, replica_connections, xlog >>

-----------------------------------------------------------------------------
(* main.handler: one task per accepted connection.  hpc is "parse" (in      *)
(* parse_commands), "drain_result" (at the drain after a result write),     *)
(* "drain_fanout" (at the drain in the fan-out loop) or "raised" (an        *)
(* exception ended the task).                                               *)

IsRegistration(cmds) ==   \* the test of line 63, where it does not raise
    /\ cmds # << >>
    /\ Lower(cmds[1]) = REPLCONF
    /\ cmds[2] = LISTENING_PORT

RegistrationRaises(cmds) ==   \* commands[1] on a one-element list
    cmds # << >> /\ Lower(cmds[1]) = REPLCONF /\ Len(cmds) < 2

Register(reg, cmds, c, w) ==   \* lines 63-65
    IF IsRegistration(cmds) THEN Append(reg, <<c, w>>) ELSE reg

IsWriteCommand(cmds) == Lower(cmds[1]) \in write_commands   \* line 79

NextReplica(reg, i) ==   \* the for statement of line 80 at index i
    IF i <= Len(reg) THEN [more |-> TRUE, writer |-> reg[i][2]]
    ELSE [more |-> FALSE, writer |-> 0]

LogEntry(c, cmds, x) ==   \* what the call was, when, what it returned
    [conn |-> c, cmd |-> cmds, t |-> clock, kind |-> x.kind, frames |-> x.frames,
     has |-> Len(cmds) >= 2 /\ cmds[2] \in DOMAIN x.store]

HandlerRaise(c, e, line) ==   \* an exception leaves the handler: the task ends
    /\ hpc' = [hpc EXCEPT ![c] = "raised"]
    /\ exc' = [exc EXCEPT ![c] = [name |-> e, line |-> line]]

HandlerRead(c) ==   \* lines 61-74, to the first drain
    /\ hpc[c] = "parse"
    /\ LET r == parse_commands(ps[c], inbuf[c], eof[c])
           cmds == r.p.ret
       IN  /\ r.p # ps[c]
           /\ inbuf' = [inbuf EXCEPT ![c] = r.buf]
           /\ ps' = [ps EXCEPT ![c] = r.p]
           /\ IF r.p.pos # "done"
              THEN UNCHANGED << hpc, exc, commands, results, out, sharedVars >>
              ELSE /\ commands' = [commands EXCEPT ![c] = cmds]
                   /\ IF RegistrationRaises(cmds)
                      THEN /\ HandlerRaise(c, "IndexError", 63)
                           /\ UNCHANGED << results, out, sharedVars >>
                      ELSE LET x == execute_commands(cmds, store, clock, role)
                           IN  /\ replica_connections' =
                                      Register(replica_connections, cmds, c, writer[c])
                               /\ store' = x.store
                               /\ xlog' = Append(xlog, LogEntry(c, cmds, x))
                               /\ IF x.kind = "none"
                                  THEN /\ HandlerRaise(c, "TypeError", 73)
                                       /\ UNCHANGED << results, out >>
                                  ELSE IF x.kind \notin {"bytes", "list"}
                                  THEN /\ HandlerRaise(c, x.kind, 67)
                                       /\ UNCHANGED << results, out >>
                                  ELSE /\ out' = Write(out, writer[c], x.frames[1], c, "result")
                                       /\ results' = [results EXCEPT ![c] = Tail(x.frames)]
                                       /\ hpc' = [hpc EXCEPT ![c] = "drain_result"]
                                       /\ UNCHANGED exc
    /\ UNCHANGED << nodeVars, clock, writer, fanIdx, eof, connLost, peer, sent >>

FanOut(c, i) ==   \* lines 80-82 at index i of the registry
    LET it == NextReplica(replica_connections, i)
    IN  IF it.more
        THEN /\ writer' = [writer EXCEPT ![c] = it.writer]
             /\ out' = Write(out, it.writer, EncodeCommand(commands[c]), c, "fanout")
             /\ fanIdx' = [fanIdx EXCEPT ![c] = i]
             /\ hpc' = [hpc EXCEPT ![c] = "drain_fanout"]
             /\ UNCHANGED << ps, exc >>
        ELSE /\ hpc' = [hpc EXCEPT ![c] = "parse"]
             /\ ps' = [ps EXCEPT ![c] = NewParse]
             /\ UNCHANGED << writer, out, fanIdx, exc >>

HandlerDrainResult(c) ==   \* a drain of lines 71/74 returns; lines 69-82
    /\ hpc[c] = "drain_result"
    /\ IF connLost[writer[c]]
       THEN /\ HandlerRaise(c, "ConnectionResetError", 71)
            /\ UNCHANGED << ps, results, writer, fanIdx, out >>
       ELSE IF results[c] # << >>
       THEN /\ out' = Write(out, writer[c], Head(results[c]), c, "result")
            /\ results' = [results EXCEPT ![c] = Tail(@)]
            /\ UNCHANGED << hpc, exc, ps, writer, fanIdx >>
       ELSE IF commands[c] = << >>
       THEN /\ HandlerRaise(c, "IndexError", 79)
            /\ UNCHANGED << ps, results, writer, fanIdx, out >>
       ELSE IF IsWriteCommand(commands[c])
       THEN FanOut(c, 1) /\ UNCHANGED results
       ELSE /\ hpc' = [hpc EXCEPT ![c] = "parse"]
            /\ ps' = [ps EXCEPT ![c] = NewParse]
            /\ UNCHANGED << exc, results, writer, fanIdx, out >>
    /\ UNCHANGED << nodeVars, sharedVars, clock, commands, inbuf, eof, connLost, peer, sent >>

HandlerDrainFanout(c) ==   \* the drain of line 82 returns; lines 80-83
    /\ hpc[c] = "drain_fanout"
    /\ IF connLost[writer[c]]
       THEN /\ HandlerRaise(c, "ConnectionResetError", 82)
            /\ UNCHANGED << ps, writer, fanIdx, out >>
       ELSE FanOut(c, fanIdx[c] + 1)
    /\ UNCHANGED << nodeVars, sharedVars, clock, commands, results, inbuf, eof,
                    connLost, peer, sent >>

-----------------------------------------------------------------------------
(* main.main and main.send_handshake.  mainPc is "start", "handshake" (in   *)
(* send_handshake: hs.step is the request last written, hs.at the await it  *)
(* is at), "serving" (start_server has been called) or "raised" (an         *)
(* exception left main and asyncio.run).                                    *)

WriteRequest(o, k) ==   \* one writer.write of lines 16-53
    Write(o, Upstream, EncodeCommand(HandshakeRequests[k]), Upstream, "handshake")

MainStart ==   \* lines 93-102, to the first await that suspends
    /\ mainPc = "start"
    /\ IF hs.replicaof
       THEN /\ role' = SLAVE
            /\ \E connected \in BOOLEAN :
                  IF connected
                  THEN /\ mainPc' = "handshake"
                       /\ hs' = [hs EXCEPT !.step = 1, !.at = "drain"]
                       /\ out' = WriteRequest(out, 1)
                       /\ peer' = [peer EXCEPT ![Upstream].kind = "primary"]
                  ELSE /\ mainPc' = "raised"
                       /\ UNCHANGED << hs, out, peer >>
       ELSE /\ mainPc' = "serving"
            /\ UNCHANGED << role, hs, out, peer >>
    /\ UNCHANGED << taskVars, sharedVars, clock, inbuf, eof, connLost, sent >>

HandshakeDrain ==   \* a drain of lines 21/32/43/54 returns
    /\ mainPc = "handshake"
    /\ hs.at = "drain"
    /\ IF connLost[Upstream]
       THEN mainPc' = "raised" /\ UNCHANGED hs
       ELSE hs' = [hs EXCEPT !.at = "response", !.p = NewResponse] /\ UNCHANGED mainPc
    /\ UNCHANGED << role, taskVars, sharedVars, clock, inbuf, eof, connLost, out,
                    peer, sent >>

HandshakeResponse ==   \* parse_response of lines 23/34/45/56, then the next request
    /\ mainPc = "handshake"
    /\ hs.at = "response"
    /\ LET r == parse_response(hs.p, inbuf[Upstream], eof[Upstream])
       IN  /\ r.p # hs.p
           /\ inbuf' = [inbuf EXCEPT ![Upstream] = r.buf]
           /\ IF r.p.pos # "done"
              THEN hs' = [hs EXCEPT !.p = r.p] /\ UNCHANGED << mainPc, out >>
              ELSE IF r.p.exc
              THEN /\ mainPc' = "raised"
                   /\ hs' = [hs EXCEPT !.p = r.p]
                   /\ UNCHANGED out
              ELSE IF hs.step < Len(HandshakeRequests)
              THEN /\ hs' = [hs EXCEPT !.p = r.p, !.step = @ + 1, !.at = "drain"]
                   /\ out' = WriteRequest(out, hs.step + 1)
                   /\ UNCHANGED mainPc
              ELSE /\ hs' = [hs EXCEPT !.p = r.p, !.at = "returned"]
                   /\ mainPc' = "serving"
                   /\ UNCHANGED out
    /\ UNCHANGED << role, taskVars, sharedVars, clock, eof, connLost, peer, sent >>

-----------------------------------------------------------------------------
(* The environment: the event loop accepting connections, the peers, the   *)
(* network, the clock.                                                      *)

Synced(d) ==   \* a replica peer that has run its handshake to the end
    /\ peer[d].step = Len(HandshakeRequests)
    /\ hpc[d] = "parse"
    /\ inbuf[d] = << >>
    /\ Len(out[d]) > Len(HandshakeRequests)

Accept(c, kinds) ==   \* start_server's accept: a handler task for the connection
    /\ mainPc = "serving"
    /\ hpc[c] = "none"
    /\ \A d \in Conns : d < c => hpc[d] # "none"
    /\ \E k \in kinds :
          /\ \A d \in Conns : (d < c /\ peer[d].kind = "replica") => Synced(d)
          /\ \A d \in Conns : (d < c /\ peer[d].kind = "client") => k = "client"
          /\ peer' = [peer EXCEPT ![c].kind = k]
    /\ hpc' = [hpc EXCEPT ![c] = "parse"]
    /\ ps' = [ps EXCEPT ![c] = NewParse]
    /\ UNCHANGED << nodeVars, sharedVars, clock, commands, results, writer, fanIdx,
                    exc, inbuf, eof, connLost, out, sent >>

ClientSend(c, menu, max) ==   \* a client sends one frame, having seen its last one read
    /\ peer[c].kind = "client"
    /\ ~eof[c]
    /\ inbuf[c] = << >>
    /\ sent < max
    /\ \E f \in menu : inbuf' = [inbuf EXCEPT ![c] = f]
    /\ sent' = sent + 1
    /\ UNCHANGED << nodeVars, taskVars, sharedVars, clock, eof, connLost, out, peer >>

ReplicaSend(c) ==   \* a replica peer runs send_handshake: next request after a reply
    /\ peer[c].kind = "replica"
    /\ ~eof[c]
    /\ peer[c].step < Len(HandshakeRequests)
    /\ Len(out[c]) >= peer[c].step
    /\ inbuf' = [inbuf EXCEPT ![c] = @ \o EncodeCommand(HandshakeRequests[peer[c].step + 1])]
    /\ peer' = [peer EXCEPT ![c].step = @ + 1]
    /\ UNCHANGED << nodeVars, taskVars, sharedVars, clock, eof, connLost, out, sent >>

PeerClose(s) ==   \* the peer closes the connection: the reader is fed EOF
    /\ peer[s].kind # "none"
    /\ ~eof[s]
    /\ Cardinality({t \in Socks : eof[t]}) < MaxCloses
    /\ eof' = [eof EXCEPT ![s] = TRUE]
    /\ UNCHANGED << nodeVars, taskVars, sharedVars, clock, inbuf, connLost, out, peer, sent >>

ConnectionLost(s) ==   \* the transport of a connection the peer closed is lost
    /\ ~connLost[s]
    /\ eof[s]
    /\ connLost' = [connLost EXCEPT ![s] = TRUE]
    /\ UNCHANGED << nodeVars, taskVars, sharedVars, clock, inbuf, eof, out, peer, sent >>

Registered(c) == \E i \in 1..Len(replica_connections) : replica_connections[i][1] = c

ReplicaClose(c) == Registered(c) /\ PeerClose(c)   \* a registered replica disconnects

Tick ==   \* time passes while the node serves
    /\ mainPc = "serving"
    /\ clock < MaxClock
    /\ clock' = clock + 1
    /\ UNCHANGED << nodeVars, taskVars, sharedVars, inbuf, eof, connLost, out, peer, sent >>

(* The primary a replica node connects to: it answers each request as this  *)
(* program's handler does, one write per frame, then propagates SETs.       *)

PrimaryReply ==
    /\ peer[Upstream].kind = "primary"
    /\ ~eof[Upstream]
    /\ peer[Upstream].step < Len(out[Upstream])
    /\ LET req == parse_commands(NewParse, out[Upstream][peer[Upstream].step + 1].data, FALSE).p.ret
           x == execute_commands(req, << >>, clock, MASTER)
       IN  peer' = [peer EXCEPT ![Upstream].step = @ + 1,
                                ![Upstream].pending = @ \o x.frames]
    /\ UNCHANGED << nodeVars, taskVars, sharedVars, clock, inbuf, eof, connLost, out, sent >>

PrimaryDeliver ==   \* the next write of the primary arrives
    /\ peer[Upstream].pending # << >>
    /\ inbuf' = [inbuf EXCEPT ![Upstream] = @ \o Head(peer[Upstream].pending)]
    /\ peer' = [peer EXCEPT ![Upstream].pending = Tail(@)]
    /\ UNCHANGED << nodeVars, taskVars, sharedVars, clock, eof, connLost, out, sent >>

PrimaryClose ==   \* the primary closes the connection during the handshake
    /\ mainPc = "handshake"
    /\ peer[Upstream].pending = << >>
    /\ PeerClose(Upstream)

PropagatedSet == <<<<"S", "E", "T">>, <<"k">>, <<"p">>>>

PrimaryPropagate ==   \* the primary fans a SET out to this replica
    /\ peer[Upstream].kind = "primary"
    /\ ~eof[Upstream]
    /\ peer[Upstream].step = Len(HandshakeRequests)
    /\ peer[Upstream].pending = << >>
    /\ Len(peer[Upstream].propagated) < MaxPropagated
    /\ inbuf' = [inbuf EXCEPT ![Upstream] = @ \o EncodeCommand(PropagatedSet)]
    /\ peer' = [peer EXCEPT ![Upstream].propagated = Append(@, PropagatedSet)]
    /\ UNCHANGED << nodeVars, taskVars, sharedVars, clock, eof, connLost, out, sent >>

-----------------------------------------------------------------------------
(* Frames clients send. *)

KeyK == <<"k">>
ValA == <<"a">>
ValB == <<"b">>

SetA == EncodeCommand(<<<<"S", "E", "T">>, KeyK, ValA>>)
SetB == EncodeCommand(<<<<"s", "e", "t">>, KeyK, ValB>>)
SetBadPx == EncodeCommand(<<<<"S", "E", "T">>, KeyK, ValB, <<"P", "X">>, <<"x">>>>)
Ping == EncodeCommand(<<<<"P", "I", "N", "G">>>>)
Unknown == EncodeCommand(<<<<"D", "E", "L">>, KeyK>>)
ListeningPort == EncodeCommand(HandshakeRequests[2])
WrongSigil == <<"+", "P", "I", "N", "G", "\r", "\n">>
NoTerminator == <<"*", "1", "\r", "\n", "$", "3", "\r", "\n", "P", "I", "N", "G", "\r", "\n">>

GetK == EncodeCommand(<<<<"G", "E", "T">>, KeyK>>)
SetPx1 == EncodeCommand(<<<<"S", "E", "T">>, KeyK, ValA, <<"p", "x">>, <<"1">>>>)
SetPx2 == EncodeCommand(<<<<"S", "E", "T">>, KeyK, ValB, <<"P", "X">>, <<"2">>>>)

ReplicationMenu == {SetA, SetB, Ping, ListeningPort}
ErrorMenu == {SetA, SetBadPx, Unknown, WrongSigil, NoTerminator, ListeningPort}
TtlMenu == {SetPx1, SetPx2, SetB, GetK}
ReplicaNodeMenu == {SetA, ListeningPort}

FewConns == 1..(MaxConns - 1)

-----------------------------------------------------------------------------
(* A node started without --replicaof, its peers replicas and clients. *)

Init == Init0(FALSE)

Next ==
    \/ MainStart
    \/ \E c \in Conns : Accept(c, {"client", "replica"})
    \/ \E c \in Conns : ClientSend(c, ReplicationMenu, MaxSends)
    \/ \E c \in Conns : ReplicaSend(c)
    \/ \E c \in Conns : ReplicaClose(c)
    \/ \E c \in Conns : ConnectionLost(c)
    \/ \E c \in Conns : HandlerRead(c)
    \/ \E c \in Conns : HandlerDrainResult(c)
    \/ \E c \in Conns : HandlerDrainFanout(c)

Spec == Init /\ [][Next]_vars

(* The same node with clients that send unknown and malformed commands and  *)
(* that disconnect.                                                         *)

NextErrors ==
    \/ MainStart
    \/ \E c \in FewConns : Accept(c, {"client"})
    \/ \E c \in FewConns : ClientSend(c, ErrorMenu, MaxSends)
    \/ \E c \in FewConns : PeerClose(c)
    \/ \E c \in FewConns : ConnectionLost(c)
    \/ \E c \in FewConns : HandlerRead(c)
    \/ \E c \in FewConns : HandlerDrainResult(c)
    \/ \E c \in FewConns : HandlerDrainFanout(c)

SpecErrors == Init /\ [][NextErrors]_vars

(* The same node with clients that SET and GET a key while time passes. *)

TtlConns == {1}   \* one client: the executor runs without suspending

NextTtl ==
    \/ MainStart
    \/ \E c \in TtlConns : Accept(c, {"client"})
    \/ \E c \in TtlConns : ClientSend(c, TtlMenu, MaxTtlSends)
    \/ \E c \in TtlConns : HandlerRead(c)
    \/ \E c \in TtlConns : HandlerDrainResult(c)
    \/ Tick

SpecTtl == Init /\ [][NextTtl]_vars

(* A node started with --replicaof: the handshake, then serving. *)

InitReplica == Init0(TRUE)

NextReplicaNode ==
    \/ MainStart
    \/ HandshakeDrain
    \/ HandshakeResponse
    \/ PrimaryReply
    \/ PrimaryDeliver
    \/ PrimaryClose
    \/ ConnectionLost(Upstream)
    \/ PrimaryPropagate
    \/ \E c \in FewConns : Accept(c, {"client"})
    \/ \E c \in FewConns : ClientSend(c, ReplicaNodeMenu, MaxSends)
    \/ \E c \in FewConns : HandlerRead(c)
    \/ \E c \in FewConns : HandlerDrainResult(c)
    \/ \E c \in FewConns : HandlerDrainFanout(c)

SpecReplica == InitReplica /\ [][NextReplicaNode]_vars

(* A primary with two connections, replicas or clients, to follow what one  *)
(* connection's commands become on a replica's socket.                      *)

PairConns == {1, 2}   \* a replica and a client, or two of either

NextFanout ==
    \/ MainStart
    \/ \E c \in PairConns : Accept(c, {"client", "replica"})
    \/ \E c \in PairConns : ClientSend(c, ReplicationMenu, MaxSends)
    \/ \E c \in PairConns : ReplicaSend(c)
    \/ \E c \in PairConns : ReplicaClose(c)
    \/ \E c \in PairConns : ConnectionLost(c)
    \/ \E c \in PairConns : HandlerRead(c)
    \/ \E c \in PairConns : HandlerDrainResult(c)
    \/ \E c \in PairConns : HandlerDrainFanout(c)

SpecFanout == Init /\ [][NextFanout]_vars

(* The command decoder alone, on one connection whose peer sends encoded    *)
(* command vectors: peer.propagated are the vectors it sends, peer.pending  *)
(* the bytes of them that have not arrived yet.                             *)

Elems == {<< >>, <<"a">>, <<"\r", "\n">>, <<"a", "\r", "\n", "b">>}

Vectors == UNION {[1..n -> Elems] : n \in 0..MaxLen}

Decoder == 1   \* the connection the decoder reads

InitDecoder(stream, pending, vectors) ==
    /\ mainPc = "serving"
    /\ role = MASTER
    /\ store = << >>
    /\ replica_connections = << >>
    /\ clock = 1
    /\ hpc = [c \in Conns |-> IF c = Decoder THEN "parse" ELSE "none"]
    /\ ps = [c \in Conns |-> NewParse]
    /\ commands = [c \in Conns |-> << >>]
    /\ results = [c \in Conns |-> << >>]
    /\ writer = [c \in Conns |-> c]
    /\ fanIdx = [c \in Conns |-> 0]
    /\ exc = [c \in Conns |-> NoException]
    /\ inbuf = [s \in Socks |-> IF s = Decoder THEN stream ELSE << >>]
    /\ eof = [s \in Socks |-> FALSE]
    /\ connLost = [s \in Socks |-> FALSE]
    /\ out = [s \in Socks |-> << >>]
    /\ xlog = << >>
    /\ peer = [s \in Socks |->
                  IF s = Decoder
                  THEN [kind |-> "codec", step |-> 0, pending |-> pending,
                        propagated |-> vectors]
                  ELSE NoPeer]
    /\ sent = 0
    /\ hs = [replicaof |-> FALSE, step |-> 0, at |-> "", p |-> NewResponse]

Decode(c) ==   \* one call of parse_commands, run until it returns or has to wait
    /\ peer[c].kind = "codec"
    /\ Len(xlog) < Len(peer[c].propagated)
    /\ LET p0 == IF ps[c].pos = "done" THEN NewParse ELSE ps[c]
           r == parse_commands(p0, inbuf[c], eof[c])
       IN  /\ r.p # p0
           /\ ps' = [ps EXCEPT ![c] = r.p]
           /\ inbuf' = [inbuf EXCEPT ![c] = r.buf]
           /\ IF r.p.pos = "done"
              THEN /\ commands' = [commands EXCEPT ![c] = r.p.ret]
                   /\ xlog' = Append(xlog,
                          [conn |-> c, cmd |-> r.p.ret, t |-> clock,
                           kind |-> IF r.p.why = "" THEN "decoded" ELSE r.p.why,
                           frames |-> << >>, has |-> FALSE])
              ELSE UNCHANGED << commands, xlog >>
    /\ UNCHANGED << nodeVars, store, replica_connections, clock, hpc, results, writer,
                    fanIdx, exc, eof, connLost, out, peer, sent >>

Deliver(c) ==   \* the next chunk of the peer's bytes arrives
    /\ peer[c].kind = "codec"
    /\ \E n \in 1..Len(peer[c].pending) :
          /\ inbuf' = [inbuf EXCEPT ![c] = @ \o SubSeq(peer[c].pending, 1, n)]
          /\ peer' = [peer EXCEPT ![c].pending = SubSeq(@, n + 1, Len(@)),
                                  ![c].step = @ + 1]
    /\ UNCHANGED << nodeVars, taskVars, sharedVars, clock, eof, connLost, out, sent >>

(* Two encoded vectors, both in the reader's buffer before the first call. *)

InitCodec ==
    \E v \in Vectors : \E w \in Vectors :
        InitDecoder(EncodeCommand(v) \o EncodeCommand(w), << >>, <<v, w>>)

NextCodec == Decode(Decoder)

SpecCodec == InitCodec /\ [][NextCodec]_vars

(* One encoded vector, arriving in chunks while the decoder runs. *)

InitChunks == \E v \in Vectors : InitDecoder(<< >>, EncodeCommand(v), <<v>>)

NextChunks ==
    \/ Deliver(Decoder)
    \/ Decode(Decoder)

SpecChunks == InitChunks /\ [][NextChunks]_vars

-----------------------------------------------------------------------------
(* Vocabulary of the properties. *)

IsPrefix(s, t) == Len(s) <= Len(t) /\ SubSeq(t, 1, Len(s)) = s

RECURSIVE Flatten(_)
Flatten(ss) == IF ss = << >> THEN << >> ELSE Head(ss) \o Flatten(Tail(ss))

Datas(entries) == [i \in 1..Len(entries) |-> entries[i].data]

Produced(c) ==   \* the frames the executor returned for the commands read on c
    LET mine(e) == e.conn = c
        es == SelectSeq(xlog, mine)
    IN  Flatten([i \in 1..Len(es) |-> es[i].frames])

ResultsOn(s, c) ==   \* the result frames handler c wrote on socket s
    LET sel(e) == e.kind = "result" /\ e.by = c
    IN  Datas(SelectSeq(out[s], sel))

FannedTo(s) ==   \* the fan-out writes made on socket s
    LET sel(e) == e.kind = "fanout"
    IN  Datas(SelectSeq(out[s], sel))

IsSet(e) == e.cmd # << >> /\ Lower(e.cmd[1]) = SET
IsGet(e) == e.cmd # << >> /\ Lower(e.cmd[1]) = GET
IsPsync(e) == e.cmd # << >> /\ Lower(e.cmd[1]) = PSYNC

KnownCommands == {PING, ECHO, SET, GET, INFO, REPLCONF, PSYNC}
InvalidCommand == encode(SIMPLE_ERROR, INVALID_COMMAND)

Idle(c) ==   \* the handler of c is not running and has nothing to read
    \/ hpc[c] \in {"none", "raised"}
    \/ hpc[c] = "parse" /\ inbuf[c] = << >> /\ ~eof[c]

SyncedAt(r) ==   \* index in xlog of the PSYNC of connection r, 0 when none
    LET is == {i \in 1..Len(xlog) : xlog[i].conn = r /\ IsPsync(xlog[i])}
    IN  IF is = {} THEN 0 ELSE CHOOSE i \in is : \A j \in is : i <= j

ExecutedAfter(r) ==   \* the SETs other connections executed after r's PSYNC, encoded
    LET later == SubSeq(xlog, SyncedAt(r) + 1, Len(xlog))
        sel(e) == e.conn # r /\ IsSet(e) /\ e.kind = "bytes"
        es == SelectSeq(later, sel)
    IN  [i \in 1..Len(es) |-> EncodeCommand(es[i].cmd)]

DecodeFailed(c) ==
    ps[c].pos = "done" /\ ps[c].why \in {"sigil", "datatype", "terminator", "exception"}

HasPx(e) == IsSet(e) /\ Len(e.cmd) = 5 /\ e.kind = "bytes"

NoSetBetween(i, j, key) ==
    \A m \in (i + 1)..(j - 1) : ~(IsSet(xlog[m]) /\ Len(xlog[m].cmd) >= 2 /\ xlog[m].cmd[2] = key)

TtlHolds(i, j) ==   \* xlog[j] is a GET answering for the SET with PX xlog[i]
    LET s == xlog[i]
        g == xlog[j]
    IN  IF g.t < s.t + PyInt(s.cmd[5]).val
        THEN g.frames = <<encode(BULK_STRING, s.cmd[3])>>
        ELSE g.frames = <<NULL_BULK_STRING>> /\ ~g.has

-----------------------------------------------------------------------------
(* C1: every response frame produced for a command read on a connection is  *)
(* written to that connection's own socket and to no other, and the         *)
(* responses reach it in the order the commands were read, also when a SET  *)
(* was fanned out to registered replicas.                                   *)
C1_ResponsesOnOwnSocketInOrder ==
    \A c \in Conns :
        /\ \A s \in Socks \ {c} : ResultsOn(s, c) = << >>
        /\ IsPrefix(ResultsOn(c, c), Produced(c))

(* C2: once a replica R has registered with REPLCONF listening-port and     *)
(* PSYNC, every SET executed afterwards from another connection is written  *)
(* to R as the Array of Bulk Strings of its arguments, and the SETs appear  *)
(* on R's socket in the order the primary executed them.                    *)
C2_ReplicaReceivesSetsInExecutionOrder ==
    \A r \in Conns :
        (peer[r].kind = "replica" /\ SyncedAt(r) > 0 /\ ~eof[r]) =>
            /\ IsPrefix(FannedTo(r), ExecutedAfter(r))
            /\ (\A c \in Conns : Idle(c)) => FannedTo(r) = ExecutedAfter(r)

(* C3: a command whose name is none of ping, echo, set, get, info,          *)
(* replconf, psync gets the Simple Error 'Invalid Command', and the         *)
(* connection task keeps serving.                                           *)
C3_UnknownCommandGetsInvalidCommand ==
    /\ \A i \in 1..Len(xlog) :
          (xlog[i].cmd # << >> /\ Lower(xlog[i].cmd[1]) \notin KnownCommands) =>
              (xlog[i].kind = "bytes" /\ xlog[i].frames = <<InvalidCommand>>)
    /\ \A c \in Conns :
          (commands[c] # << >> /\ Lower(commands[c][1]) \notin KnownCommands) =>
              hpc[c] # "raised"

(* C4: when decoding a command fails on a connection that is still open,    *)
(* the task answers 'Invalid Command', leaves keyspace and registry alone   *)
(* and goes on with its loop: the next command on it is served.             *)
C4_DecodeFailureKeepsConnectionServing ==
    \A c \in Conns : (DecodeFailed(c) /\ ~eof[c] /\ ~connLost[c]) => hpc[c] # "raised"

(* C5: on a replica node whose handshake has completed, every SET the       *)
(* primary then writes on the handshake socket is decoded and applied to    *)
(* the keyspace, and nothing is written back to the primary for it: when    *)
(* the node has nothing left to run, the propagated SETs have been applied. *)
(* (send_handshake returns and drops its reader: no task reads the socket.) *)
C5_PropagatedSetsAreApplied ==
    LET sets == peer[Upstream].propagated
    IN  /\ \A i \in 1..Len(out[Upstream]) : out[Upstream][i].kind = "handshake"
        /\ (mainPc = "serving" /\ sets # << >> /\ \A c \in Conns : Idle(c)) =>
               /\ inbuf[Upstream] = << >>
               /\ \A i \in 1..Len(sets) : \E j \in 1..Len(xlog) : xlog[j].cmd = sets[i]

(* C6: a node whose role is slave never fans a command out to a writer of   *)
(* its replica registry.                                                    *)
C6_SlaveNeverFansOut ==
    role = SLAVE => \A s \in Socks : FannedTo(s) = << >>

(* C7: the handshake writes its four requests in order, and writes request  *)
(* k+1 only after the reply to request k has been consumed in full.         *)
C7_HandshakeIsSerial ==
    /\ [](/\ Len(out[Upstream]) <= Len(HandshakeRequests)
          /\ \A i \in 1..Len(out[Upstream]) :
                out[Upstream][i].data = EncodeCommand(HandshakeRequests[i]))
    /\ [][(hs.step >= 1 /\ hs'.step = hs.step + 1) =>
              /\ peer[Upstream].step = hs.step
              /\ peer[Upstream].pending = << >>
              /\ inbuf'[Upstream] = << >>]_vars

(* C8: a failed handshake is not fatal: the node still starts listening and *)
(* serves with role slave.                                                  *)
C8_HandshakeFailureIsNotFatal ==
    role = SLAVE => mainPc \in {"handshake", "serving"}

(* C9: after SET K with PX = k executed at t0, and until K is SET again, a  *)
(* GET K at t < t0 + k returns the stored value, and a GET K at t >= t0 + k *)
(* returns the null bulk string and leaves no entry for K.                  *)
C9_TtlMonotonicity ==
    \A i \in 1..Len(xlog) : \A j \in (i + 1)..Len(xlog) :
        (/\ HasPx(xlog[i])
         /\ IsGet(xlog[j]) /\ xlog[j].cmd[2] = xlog[i].cmd[2]
         /\ NoSetBetween(i, j, xlog[i].cmd[2])) => TtlHolds(i, j)

C9_Witness ==   \* a SET with PX, a GET before the expiry, two GETs after it
    \E i \in 1..Len(xlog) : \E j \in (i + 1)..Len(xlog) : \E m \in (j + 1)..Len(xlog) :
        /\ HasPx(xlog[i]) /\ IsGet(xlog[j]) /\ IsGet(xlog[m])
        /\ NoSetBetween(i, m, xlog[i].cmd[2])
        /\ xlog[j].t < xlog[i].t + PyInt(xlog[i].cmd[5]).val
        /\ xlog[j].frames = <<encode(BULK_STRING, xlog[i].cmd[3])>>
        /\ xlog[m].t >= xlog[i].t + PyInt(xlog[i].cmd[5]).val
        /\ xlog[m].frames = <<NULL_BULK_STRING>>

(* C10: when the fan-out write to one registered replica fails, the         *)
(* replicas after it in the registry still receive the command and the      *)
(* originating client's task is not ended by the failure.                   *)
C10_FanOutIsBestEffort ==
    \A c \in Conns :
        /\ ~(hpc[c] = "raised" /\ exc[c].line = 82)
        /\ (exc[c].line = 82) =>
               \A i \in (fanIdx[c] + 1)..Len(replica_connections) :
                   ~connLost[replica_connections[i][2]] =>
                       \E j \in 1..Len(out[replica_connections[i][2]]) :
                           /\ out[replica_connections[i][2]][j].by = c
                           /\ out[replica_connections[i][2]][j].data = EncodeCommand(commands[c])


-----------------------------------------------------------------------------
(* Vocabulary of the replication properties. *)

FannedBy(s, c) ==   \* the fan-out writes handler c made on socket s
    LET sel(e) == e.kind = "fanout" /\ e.by = c
    IN  Datas(SelectSeq(out[s], sel))

SetsReadOn(c) ==   \* the SETs read and executed on c, encoded, in the order read
    LET sel(e) == e.conn = c /\ IsSet(e) /\ e.kind = "bytes"
        es == SelectSeq(xlog, sel)
    IN  [i \in 1..Len(es) |-> EncodeCommand(es[i].cmd)]

RECURSIVE InOrderOf(_, _)
InOrderOf(f, s) ==   \* f runs through s from left to right, never going back
    \/ f = << >>
    \/ /\ s # << >>
       /\ \/ Head(f) = Head(s) /\ InOrderOf(Tail(f), s)
          \/ InOrderOf(f, Tail(s))

IsListeningPort(e) ==   \* REPLCONF listening-port <port>
    Len(e.cmd) >= 2 /\ Lower(e.cmd[1]) = REPLCONF /\ e.cmd[2] = LISTENING_PORT

ListeningPorts(c) == {i \in 1..Len(xlog) : xlog[i].conn = c /\ IsListeningPort(xlog[i])}

EntriesOf(c) == {i \in 1..Len(replica_connections) : replica_connections[i][1] = c}

(* C11: the SETs read on one connection are written to a replica's socket   *)
(* in the order they were read on that connection: the fan-out of one       *)
(* command to the replica is over before the next command's begins.         *)
C11_OneConnectionFansOutInReadOrder ==
    \A c \in Conns : \A r \in Conns : InOrderOf(FannedBy(r, c), SetsReadOn(c))

C11_Witness ==   \* two different SETs of one client have reached a replica
    \E c \in Conns : \E r \in Conns \ {c} :
        /\ peer[r].kind = "replica"
        /\ Len(FannedBy(r, c)) = 2
        /\ FannedBy(r, c)[1] # FannedBy(r, c)[2]
        /\ FannedBy(r, c) = SetsReadOn(c)

(* C12: REPLCONF listening-port appends the connection's own (reader,       *)
(* writer) pair to the registry before its +OK is written; no other command *)
(* appends and no entry is removed: the registry holds one entry of the     *)
(* connection for each such command it has sent, in the order executed.     *)
C12_RegistrationAppendsOwnPair ==
    /\ \A i \in 1..Len(replica_connections) :
          replica_connections[i][2] = replica_connections[i][1]
    /\ \A c \in Conns : Cardinality(EntriesOf(c)) = Cardinality(ListeningPorts(c))

(* C19: every connection appears at most once in the replica registry, so   *)
(* a fanned-out SET is written once to a replica connection.                *)
C19_RegistryHasNoDuplicates ==
    /\ \A c \in Conns : Cardinality(EntriesOf(c)) <= 1
    /\ \A c \in Conns : \A r \in Conns : Len(FannedBy(r, c)) <= Len(SetsReadOn(c))


-----------------------------------------------------------------------------
(* Frames as they are expected on the wire, written out byte by byte. *)

PongFrame == <<"+", "P", "O", "N", "G", "\r", "\n">>
OkFrame == <<"+", "O", "K", "\r", "\n">>
FullResyncFrame ==
    <<"+", "F", "U", "L", "L", "R", "E", "S", "Y", "N", "C", " ">> \o master_replid
        \o <<" ", "0", "\r", "\n">>
SnapshotFrame == <<"$", "8", "8", "\r", "\n">> \o rdb_state
SyncReplies == <<PongFrame, OkFrame, OkFrame, FullResyncFrame, SnapshotFrame>>

EofSeen(c) == ps[c].pos = "done" /\ ps[c].why = "eof"

WroteFor(c, data) ==   \* handler c has written data on some socket
    \E s \in Socks : \E j \in 1..Len(out[s]) : out[s][j].by = c /\ out[s][j].data = data

PlainSet(e) == IsSet(e) /\ Len(e.cmd) = 3 /\ e.kind = "bytes"

(* C13: when the decoder reports EOF on a connection, its task ends         *)
(* quietly: it writes no frame to any socket and raises no error.           *)
C13_EofEndsTaskQuietly ==
    \A c \in Conns :
        EofSeen(c) =>
            /\ hpc[c] # "raised"
            /\ ~WroteFor(c, InvalidCommand)
            /\ \A i \in 1..Len(xlog) : xlog[i].conn = c => xlog[i].cmd # << >>

(* C14: the response to PSYNC is two writes, the Simple String FULLRESYNC   *)
(* <master_replid> <master_repl_offset> and then $<length> CRLF <snapshot>  *)
(* with no trailing CRLF; a connection that sends PING, REPLCONF            *)
(* listening-port, REPLCONF capa psync2, PSYNC ? -1 receives +PONG, +OK,    *)
(* +OK and those two frames, in that order.                                 *)
C14_PsyncRepliesWithTwoFrames ==
    /\ \A i \in 1..Len(xlog) :
          IsPsync(xlog[i]) =>
              xlog[i].kind = "list" /\ xlog[i].frames = <<FullResyncFrame, SnapshotFrame>>
    /\ \A c \in Conns :
          (peer[c].kind = "replica" /\ ~eof[c]) =>
              /\ IsPrefix(ResultsOn(c, c), SyncReplies)
              /\ (peer[c].step = Len(HandshakeRequests) /\ Idle(c)) =>
                     ResultsOn(c, c) = SyncReplies

C14_Witness ==   \* a connection has sent the four requests and received the five frames
    \E c \in Conns :
        /\ peer[c].kind = "replica" /\ ~eof[c]
        /\ peer[c].step = Len(HandshakeRequests)
        /\ Datas(out[c]) = SyncReplies
        /\ \E i \in 1..Len(xlog) : xlog[i].conn = c /\ IsPsync(xlog[i])

(* C16: after a SET of K without PX, whatever K held before and however far *)
(* the clock advances, a GET K returns the value of that SET until K is SET *)
(* again.                                                                   *)
C16_SetWithoutPxClearsExpiry ==
    \A j \in 1..Len(xlog) : \A m \in (j + 1)..Len(xlog) :
        (/\ PlainSet(xlog[j])
         /\ IsGet(xlog[m]) /\ xlog[m].cmd[2] = xlog[j].cmd[2]
         /\ NoSetBetween(j, m, xlog[j].cmd[2])) =>
            xlog[m].frames = <<encode(BULK_STRING, xlog[j].cmd[3])>>

C16_Witness ==   \* SET with PX, SET without PX, GET after the first SET's expiry
    \E i \in 1..Len(xlog) : \E j \in (i + 1)..Len(xlog) : \E m \in (j + 1)..Len(xlog) :
        /\ HasPx(xlog[i]) /\ PlainSet(xlog[j]) /\ IsGet(xlog[m])
        /\ xlog[j].cmd[2] = xlog[i].cmd[2] /\ xlog[m].cmd[2] = xlog[i].cmd[2]
        /\ xlog[j].cmd[3] # xlog[i].cmd[3]
        /\ xlog[j].t < xlog[i].t + PyInt(xlog[i].cmd[5]).val
        /\ xlog[m].t >= xlog[i].t + PyInt(xlog[i].cmd[5]).val
        /\ xlog[m].frames = <<encode(BULK_STRING, xlog[j].cmd[3])>>

(* C18: once all fan-out writes have completed, the last SET of K a         *)
(* registered replica has received is the SET whose value the primary's     *)
(* keyspace holds for K.                                                    *)
C18_ReplicaConvergesToPrimary ==
    \A r \in Conns :
        (/\ peer[r].kind = "replica" /\ SyncedAt(r) > 0 /\ ~eof[r]
         /\ \A c \in Conns : Idle(c)
         /\ FannedTo(r) # << >>) =>
            \E i \in 1..Len(xlog) :
                /\ IsSet(xlog[i]) /\ Len(xlog[i].cmd) >= 3
                /\ FannedTo(r)[Len(FannedTo(r))] = EncodeCommand(xlog[i].cmd)
                /\ xlog[i].cmd[2] \in DOMAIN store
                /\ store[xlog[i].cmd[2]].value = xlog[i].cmd[3]

(* C20: a SET K V PX <ttl> whose ttl is not a decimal number raises, leaves *)
(* the keyspace as it was and fans nothing out.                             *)
C20_FailedSetLeavesKeyspaceUnchanged ==
    /\ [](\A i \in 1..Len(xlog) :
             xlog[i].kind = "ValueError" =>
                 \A s \in Socks : \A j \in 1..Len(out[s]) :
                     ~(out[s][j].kind = "fanout" /\ out[s][j].by = xlog[i].conn
                       /\ out[s][j].data = EncodeCommand(xlog[i].cmd)))
    /\ [][\A c \in Conns :
              (exc'[c].name = "ValueError" /\ exc[c].name # "ValueError") =>
                  store' = store]_vars


-----------------------------------------------------------------------------
(* The codec. *)

Sent(c) == peer[c].propagated   \* the vectors the peer of c encoded and sent

Undecoded(c) ==   \* the encodings of the vectors no call has returned yet
    Join([i \in 1..(Len(Sent(c)) - Len(xlog)) |-> EncodeCommand(Sent(c)[Len(xlog) + i])])

(* C15: decoding the encoding of a command vector as an Array of Bulk       *)
(* Strings returns the vector, also with elements that are empty or contain *)
(* CR LF, and consumes the bytes of that frame only: the frame after it is  *)
(* decoded intact by the next call.                                         *)
C15_CodecRoundTrip ==
    peer[Decoder].kind = "codec" =>
        /\ \A i \in 1..Len(xlog) :
              xlog[i].kind = "decoded" /\ xlog[i].cmd = Sent(Decoder)[i]
        /\ inbuf[Decoder] = Undecoded(Decoder)

C15_Witness ==   \* a vector with an empty element and a CR LF element, then a second vector
    /\ peer[Decoder].kind = "codec"
    /\ Len(xlog) = 2
    /\ xlog[1].cmd = << << >>, <<"\r", "\n">> >>
    /\ xlog[2].cmd = << <<"a", "\r", "\n", "b">> >>
    /\ inbuf[Decoder] = << >>

(* C17: the decoder's result does not depend on how the bytes of a          *)
(* well-formed frame are split into chunks: it returns the full command,    *)
(* never a parse error or a truncated element.                              *)
C17_DecodeIsChunkIndependent ==
    peer[Decoder].kind = "codec" =>
        \A i \in 1..Len(xlog) :
            xlog[i].kind = "decoded" /\ xlog[i].cmd = Sent(Decoder)[i]

=============================================================================
